---- MODULE Spec2Model ----
(***************************************************************************)
(* Feed ranking, cursor pagination and cache-aside layer of the            *)
(* tea-challenge backend (FeedService, PostService, EngagementService,     *)
(* CacheService, PostsController, FeedController, RateLimitMiddleware).    *)
(*                                                                         *)
(* Numbers.  A relevance score is a JavaScript double.  It is modelled as  *)
(* a fixed-point integer counting units of 10^-7 (SCALE units = 1.0), so   *)
(* that the three renderings Number::toString can give for a score (zero,  *)
(* plain decimal, exponent notation below 10^-6) all occur.                *)
(* Time.  Date.now() is modelled in ticks of half an hour (HOUR_IN_MS      *)
(* becomes 2 ticks); the decay exp(-0.1 * hoursOld) is computed per tick   *)
(* in the same fixed point.  Where the rate limiter runs (SpecRate) a tick *)
(* is half a rate-limit window (WINDOW_MS becomes 2 ticks).                *)
(* Strings.  A cursor is a sequence of one-character strings.              *)
(***************************************************************************)
EXTENDS Integers, Sequences, FiniteSets, TLC

\* ------------------------------------------------------------------ bounds
MaxPosts == 3        \* posts in the store
MaxLikes == 1        \* largest likeCount drawn for a stored post
MaxLimit == 2        \* largest page size a client asks for
MaxTicks == 1        \* clock ticks the environment may add
MaxCreated == 1      \* posts created while the service runs
MaxExtra == 2        \* requests of one address in a window, beyond the limit
MaxBypassed == 1     \* requests of one address in a window taking the bypass

\* --------------------------------------------------------------- constants
SCALE == 10000000            \* fixed-point units per 1.0
FRAC_DIGITS == 7             \* decimal digits of one unit
HOUR_IN_MS == 2              \* one hour, in clock ticks
DECAY_BASE == 10000          \* denominator of the per-tick factors
DECAY_PER_TICK == 9512       \* exp(-0.1 * 0.5) * DECAY_BASE
GROWTH_PER_TICK == 10513     \* exp(+0.1 * 0.5) * DECAY_BASE
BLOCK_TICKS == 20            \* ten hours
DECAY_PER_BLOCK == 3679      \* exp(-0.1 * 10) * DECAY_BASE
SCORE_TOLERANCE == 10000     \* 0.001 in units
FIRST_PAGE_BUMP == 1000000   \* 0.1 in units
FETCH_LIMIT == 1000          \* rows getFeed asks the store for
DEFAULT_LIMIT == 20
TTL_CATEGORY == 900          \* 15 * 60
TTL_GENERAL == 300           \* 5 * 60
ID_LENGTH == 24              \* characters of an ObjectId
OLD_AGE == 280               \* age in ticks (140 h) of an old seeded post

\* ----------------------------------------------------------------- strings
Digits == <<"0", "1", "2", "3", "4", "5", "6", "7", "8", "9">>
HexChars == <<"0", "1", "2", "3", "4", "5", "6", "7", "8", "9",
              "a", "b", "c", "d", "e", "f">>

IsDigit(c) == \E i \in 1..10 : Digits[i] = c
IsHex(c) == \E i \in 1..16 : HexChars[i] = c
DigitVal(c) == (CHOOSE i \in 1..10 : Digits[i] = c) - 1

\* Code-unit order of the characters a cursor can hold: '-' '.' '0'-'9' '_' 'a'-'f'
CharOrder == <<"-", ".", "0", "1", "2", "3", "4", "5", "6", "7", "8", "9",
               "_", "a", "b", "c", "d", "e", "f">>
CharCode(c) == CHOOSE i \in 1..Len(CharOrder) : CharOrder[i] = c

\* a > b for JavaScript strings (lexicographic by code unit)
RECURSIVE StrGreater(_, _)
StrGreater(a, b) ==
    IF a = <<>> THEN FALSE
    ELSE IF b = <<>> THEN TRUE
    ELSE IF Head(a) # Head(b) THEN CharCode(Head(a)) > CharCode(Head(b))
    ELSE StrGreater(Tail(a), Tail(b))

RECURSIVE Pow10(_)
Pow10(n) == IF n = 0 THEN 1 ELSE 10 * Pow10(n - 1)

\* decimal digits of a natural number, no leading zeros
RECURSIVE NatToStr(_)
NatToStr(n) ==
    IF n < 10 THEN <<Digits[n + 1]>>
    ELSE Append(NatToStr(n \div 10), Digits[(n % 10) + 1])

\* the `width` digits of n, zero padded, as a sequence of characters
RECURSIVE PadDigits(_, _)
PadDigits(n, width) ==
    IF width = 0 THEN <<>>
    ELSE Append(PadDigits(n \div 10, width - 1), Digits[(n % 10) + 1])

RECURSIVE StripZeros(_)
StripZeros(s) ==
    IF s # <<>> /\ s[Len(s)] = "0" THEN StripZeros(SubSeq(s, 1, Len(s) - 1))
    ELSE s

\* Number::toString of the double u / SCALE: "0" for zero, a leading "-" for
\* a negative number, exponent notation for a magnitude below 10^-6, plain
\* decimal notation with the shortest fraction otherwise.
NumberToString(u) ==
    LET m == IF u < 0 THEN -u ELSE u
        sign == IF u < 0 THEN <<"-">> ELSE <<>>
        frac == StripZeros(PadDigits(m % SCALE, FRAC_DIGITS))
        body == IF m = 0 THEN <<"0">>
                ELSE IF m < 10 THEN NatToStr(m) \o <<"e", "-">> \o NatToStr(FRAC_DIGITS)
                ELSE NatToStr(m \div SCALE)
                     \o (IF frac = <<>> THEN <<>> ELSE <<".">> \o frac)
    IN sign \o body

\* ObjectId.toString(): 24 lower-case hexadecimal characters
RECURSIVE HexPad(_, _)
HexPad(n, width) ==
    IF width = 0 THEN <<>>
    ELSE Append(HexPad(n \div 16, width - 1), HexChars[(n % 16) + 1])

ObjectIdStr(id) == HexPad(id, ID_LENGTH)

FIRST_PAGE_ID == HexPad(0, ID_LENGTH)

\* String.prototype.split('_')
RECURSIVE SplitUnderscore(_)
SplitUnderscore(s) ==
    IF \A i \in 1..Len(s) : s[i] # "_" THEN <<s>>
    ELSE LET k == CHOOSE i \in 1..Len(s) :
                      s[i] = "_" /\ \A j \in 1..(i - 1) : s[j] # "_"
         IN <<SubSeq(s, 1, k - 1)>> \o SplitUnderscore(SubSeq(s, k + 1, Len(s)))

\* number of leading decimal digits of s
RECURSIVE DigitRun(_)
DigitRun(s) ==
    IF s # <<>> /\ IsDigit(Head(s)) THEN 1 + DigitRun(Tail(s)) ELSE 0

RECURSIVE DigitsToNat(_)
DigitsToNat(s) ==
    IF s = <<>> THEN 0
    ELSE 10 * DigitsToNat(SubSeq(s, 1, Len(s) - 1)) + DigitVal(s[Len(s)])

\* mant * 10^shift, rounded down to a unit
ScaleMantissa(mant, shift) ==
    IF shift >= 0 THEN mant * Pow10(shift) ELSE mant \div Pow10(-shift)

\* the value of the exponent part ("e-7", "e7") r begins with, 0 without one
ExponentOf(r) ==
    IF Len(r) >= 2 /\ r[1] = "e"
    THEN IF r[2] = "-"
         THEN -DigitsToNat(SubSeq(r, 3, 2 + DigitRun(SubSeq(r, 3, Len(r)))))
         ELSE DigitsToNat(SubSeq(r, 2, 1 + DigitRun(Tail(r))))
    ELSE 0

\* ip: the integer digits; r: the rest, beginning with "."; nf: the number
\* of fraction digits after the "."
ParseFraction(ip, r, nf) ==
    ScaleMantissa(DigitsToNat(ip \o SubSeq(r, 2, nf + 1)),
                  FRAC_DIGITS - nf + ExponentOf(SubSeq(r, nf + 2, Len(r))))

\* s without sign; ni: the number of its leading digits
ParseMagnitude(s, ni) ==
    IF ni < Len(s) /\ s[ni + 1] = "."
    THEN ParseFraction(SubSeq(s, 1, ni), SubSeq(s, ni + 1, Len(s)),
                       DigitRun(SubSeq(s, ni + 2, Len(s))))
    ELSE ScaleMantissa(DigitsToNat(SubSeq(s, 1, ni)),
                       FRAC_DIGITS + ExponentOf(SubSeq(s, ni + 1, Len(s))))

\* parseFloat: optional sign, digits, optional fraction, optional exponent;
\* the result is in units (fraction digits beyond a unit are dropped).
parseFloat(s) ==
    IF s # <<>> /\ Head(s) = "-"
    THEN -ParseMagnitude(Tail(s), DigitRun(Tail(s)))
    ELSE ParseMagnitude(s, DigitRun(s))


\* ------------------------------------------------------------ cursor codec
\* the empty string stands for "no cursor" (null / undefined)
NoCursor == <<>>

createCursor(score, postId) == NumberToString(score) \o <<"_">> \o postId

parseCursor(cursor) ==
    LET parts == SplitUnderscore(cursor)
    IN [score |-> parseFloat(parts[1]),
        postId |-> IF Len(parts) >= 2 THEN parts[2] ELSE <<>>]

\* _[a-f0-9]{24}$
MatchesId(r) ==
    /\ Len(r) = ID_LENGTH + 1
    /\ r[1] = "_"
    /\ \A i \in 2..Len(r) : IsHex(r[i])

\* (\.\d+)?_[a-f0-9]{24}$
MatchesFraction(r) ==
    IF r # <<>> /\ Head(r) = "."
    THEN /\ DigitRun(Tail(r)) >= 1
         /\ MatchesId(SubSeq(r, DigitRun(Tail(r)) + 2, Len(r)))
    ELSE MatchesId(r)

\* @Matches(/^\d+(\.\d+)?_[a-f0-9]{24}$/) of FeedQueryDto.cursor
CursorMatches(s) ==
    /\ DigitRun(s) >= 1
    /\ MatchesFraction(SubSeq(s, DigitRun(s) + 1, Len(s)))

\* ----------------------------------------------------------------- scoring
\* d * factor / DECAY_BASE without leaving 32 bits
MulFactor(d, factor) ==
    (d \div DECAY_BASE) * factor + ((d % DECAY_BASE) * factor) \div DECAY_BASE

\* Math.exp(-0.1 * ticks / HOUR_IN_MS) in units, as a product of fixed-point
\* factors: one per block of BLOCK_TICKS ticks, then one per tick
RECURSIVE decayFactor(_)
decayFactor(ticks) ==
    IF ticks = 0 THEN SCALE
    ELSE IF ticks >= BLOCK_TICKS
         THEN MulFactor(decayFactor(ticks - BLOCK_TICKS), DECAY_PER_BLOCK)
    ELSE IF ticks > 0
         THEN MulFactor(decayFactor(ticks - 1), DECAY_PER_TICK)
    ELSE MulFactor(decayFactor(ticks + 1), GROWTH_PER_TICK)

\* variant: the raw clock reading is used
quantizedTime_raw(currentTime) == currentTime

\* Math.floor(currentTime / HOUR_IN_MS) * HOUR_IN_MS
quantizedTime(currentTime) == (currentTime \div HOUR_IN_MS) * HOUR_IN_MS

\* FeedService.calculateRelevanceScore with Date.now() = currentTime
calculateRelevanceScore(post, currentTime) ==
    post.likeCount * decayFactor(quantizedTime(currentTime) - post.createdAt)

\* Math.round(score * 10) / 10
RoundTenth(u) == ((u + (SCALE \div 20)) \div (SCALE \div 10)) * (SCALE \div 10)

\* ----------------------------------------------------------------- sorting
\* Array.prototype.sort((a, b) => b.relevanceScore - a.relevanceScore):
\* variant: the rows stay in the order they were delivered in
SortByScore_unsorted(s) == s

\* Array.prototype.sort((a, b) => b.relevanceScore - a.relevanceScore):
\* stable, descending by score
RECURSIVE SortByScore(_)
SortByScore(s) ==
    IF s = <<>> THEN <<>>
    ELSE LET front == SortByScore(SubSeq(s, 1, Len(s) - 1))
             x == s[Len(s)]
             k == Cardinality({i \in 1..Len(front) :
                                  front[i].relevanceScore >= x.relevanceScore})
         IN SubSeq(front, 1, k) \o <<x>> \o SubSeq(front, k + 1, Len(front))

\* Array.prototype.findIndex, 1-based, given the set of the indices whose
\* element satisfies the predicate; 0 when there is none
FindIndex(matching) ==
    IF matching = {} THEN 0
    ELSE CHOOSE i \in matching : \A j \in matching : i <= j

Abs(x) == IF x < 0 THEN -x ELSE x
Max(a, b) == IF a > b THEN a ELSE b
Min(a, b) == IF a < b THEN a ELSE b

\* ------------------------------------------------------------- pagination
EmptyPage == [data |-> <<>>, nextCursor |-> NoCursor, prevCursor |-> NoCursor]

\* variant: a difference of exactly the tolerance still matches
IsCursorPost_inclusive(post, cursor) ==
    /\ Abs(post.relevanceScore - cursor.score) <= SCORE_TOLERANCE
    /\ ObjectIdStr(post.id) = cursor.postId

\* the predicate of the first findIndex: the row the cursor points at
IsCursorPost(post, cursor) ==
    /\ Abs(post.relevanceScore - cursor.score) < SCORE_TOLERANCE
    /\ ObjectIdStr(post.id) = cursor.postId

\* the predicate of the second findIndex: a row after the cursor
IsAfterCursor(post, cursor) ==
    \/ post.relevanceScore < cursor.score
    \/ /\ post.relevanceScore = cursor.score
       /\ StrGreater(ObjectIdStr(post.id), cursor.postId)

\* variant: a cursor with no row after it starts over at the first row
startIndex_wrap(posts, hasCursor, cursor) ==
    LET cursorPostIndex ==
            FindIndex({i \in 1..Len(posts) : IsCursorPost(posts[i], cursor)})
    IN IF ~hasCursor THEN 0
       ELSE IF cursorPostIndex # 0 THEN cursorPostIndex
       ELSE Max(0, FindIndex({i \in 1..Len(posts) : IsAfterCursor(posts[i], cursor)}) - 1)

\* startIndex of the source (the number of rows before the page), or -1.
\* Indices are 1-based here, so the row at 1-based index i has i rows up to
\* and including it, and FindIndex's 0 ("none") becomes the source's -1.
startIndex(posts, hasCursor, cursor) ==
    LET cursorPostIndex ==
            FindIndex({i \in 1..Len(posts) : IsCursorPost(posts[i], cursor)})
    IN IF ~hasCursor THEN 0
       ELSE IF cursorPostIndex # 0 THEN cursorPostIndex
       ELSE FindIndex({i \in 1..Len(posts) : IsAfterCursor(posts[i], cursor)}) - 1

\* variant: the cursor names the row that follows the page
nextCursorOf_peek(posts, data, endIndex) ==
    IF endIndex < Len(posts) /\ Len(data) > 0
    THEN createCursor(posts[endIndex + 1].relevanceScore,
                      ObjectIdStr(posts[endIndex + 1].id))
    ELSE NoCursor

\* variant: every non-empty page gets a cursor
nextCursorOf_everyPage(posts, data, endIndex) ==
    IF Len(data) > 0
    THEN createCursor(data[Len(data)].relevanceScore, ObjectIdStr(data[Len(data)].id))
    ELSE NoCursor

\* nextCursor of the source
nextCursorOf(posts, data, endIndex) ==
    IF endIndex < Len(posts) /\ Len(data) > 0
    THEN createCursor(data[Len(data)].relevanceScore, ObjectIdStr(data[Len(data)].id))
    ELSE NoCursor

\* prevCursor of the source
prevCursorOf(posts, limit, start) ==
    LET prevPageStartIndex == Max(0, start - limit)
    IN IF start > 0
       THEN IF prevPageStartIndex > 0
            THEN createCursor(posts[prevPageStartIndex].relevanceScore,
                              ObjectIdStr(posts[prevPageStartIndex].id))
            ELSE createCursor(posts[1].relevanceScore + FIRST_PAGE_BUMP, FIRST_PAGE_ID)
       ELSE NoCursor

\* the page that begins after `start` rows
PageFrom(posts, limit, hasCursor, start) ==
    IF hasCursor /\ (start = -1 \/ start >= Len(posts))
    THEN EmptyPage
    ELSE [data |-> SubSeq(posts, start + 1, Min(start + limit, Len(posts))),
          nextCursor |->
              nextCursorOf(posts, SubSeq(posts, start + 1, Min(start + limit, Len(posts))),
                           start + limit),
          prevCursor |-> prevCursorOf(posts, limit, start)]

\* FeedService.applyCursorPagination
applyCursorPagination(posts, limit, hasCursor, cursor) ==
    PageFrom(posts, limit, hasCursor, startIndex(posts, hasCursor, cursor))


\* ------------------------------------------------------------------- state
VARIABLES
    posts,        \* the posts collection of the store: a set of documents
    engagements,  \* the userengagements collection: a set of documents
    cache,        \* the cache: feed key -> <<>> (absent) or <<entry>>
    clock,        \* Date.now(), in ticks
    nextId,       \* the next ObjectId the store hands out
    resp,         \* outcome of the request handled last
    session,      \* the pages one client has fetched, in order
    scoreEval,    \* two evaluations of the scorer on one post
    awaiting,     \* per feed scope, until the next feed request of the
                  \* scope: what the last creation did to the scope's key
                  \* ("deleted", "absent": nothing to delete, "kept": the
                  \* delete failed), or "none"
    paged,        \* one call of applyCursorPagination: arguments and result
    rateLimitMap, \* RateLimitMiddleware.rateLimitMap: ip -> <<>> or <<entry>>
    admitted,     \* per ip: requests handed to next() in the window of clock
    inflight      \* per request in progress: the await it has reached and
                  \* what it holds in its local variables

vars == <<posts, engagements, cache, clock, nextId, resp, session, scoreEval,
          awaiting, paged, rateLimitMap, admitted, inflight>>

\* PREDEFINED_CATEGORIES / the @IsIn list of FeedQueryDto.category
Categories == {"technology", "sports", "entertainment", "news", "lifestyle",
               "health", "travel", "food", "science", "business"}

\* the categories requests of the model name
UsedCategories == {"technology"}

\* the empty string stands for "no category"
NoCategory == ""

Users == {"u1", "u2"}

\* the clock value of the initial state: half an hour past an hour boundary,
\* late enough for a post of age OLD_AGE to exist
NOW0 == 601

\* FeedService.getCacheKey
getCacheKey(category) == <<"posts", category, "raw">>

\* variant: one TTL for every scope
getCacheTTL_flat(category) == TTL_GENERAL

\* FeedService.getCacheTTL
getCacheTTL(category) == IF category # NoCategory THEN TTL_CATEGORY ELSE TTL_GENERAL

\* the keys FeedService.invalidateCache deletes
InvalidatedKeys == {getCacheKey(NoCategory)} \cup {getCacheKey(c) : c \in Categories}

\* -------------------------------------------------------------------- store
\* sort({ createdAt: -1, _id: -1 }) of a set of documents
RECURSIVE SortByCreatedAt(_)
SortByCreatedAt(S) ==
    IF S = {} THEN <<>>
    ELSE LET first == CHOOSE p \in S : \A q \in S :
                          \/ p.createdAt > q.createdAt
                          \/ p.createdAt = q.createdAt /\ p.id >= q.id
         IN <<first>> \o SortByCreatedAt(S \ {first})

\* variant: a failing query is swallowed and an empty result returned
findAll_swallowed(category, limit, storeErr) ==
    LET filter == {p \in posts : p.isActive
                                 /\ (category # NoCategory => p.category = category)}
        sorted == SortByCreatedAt(filter)
    IN [posts |-> IF storeErr THEN <<>>
                  ELSE SubSeq(sorted, 1, Min(limit, Len(sorted))),
        totalCount |-> IF storeErr THEN 0 ELSE Cardinality(filter),
        threw |-> FALSE]

\* variant: the count query is left out
findAll_uncounted(category, limit, storeErr) ==
    LET filter == {p \in posts : p.isActive
                                 /\ (category # NoCategory => p.category = category)}
        sorted == SortByCreatedAt(filter)
    IN [posts |-> IF storeErr THEN <<>>
                  ELSE SubSeq(sorted, 1, Min(limit, Len(sorted))),
        totalCount |-> 0,
        threw |-> storeErr]

\* PostService.findAll(category, limit) without cursor; when the count or
\* find query fails (storeErr) the error is logged and thrown again
findAll(category, limit, storeErr) ==
    LET filter == {p \in posts : p.isActive
                                 /\ (category # NoCategory => p.category = category)}
        sorted == SortByCreatedAt(filter)
    IN [posts |-> IF storeErr THEN <<>>
                  ELSE SubSeq(sorted, 1, Min(limit, Len(sorted))),
        totalCount |-> IF storeErr THEN 0 ELSE Cardinality(filter),
        threw |-> storeErr]

\* --------------------------------------------------------------- responses
NoResp ==
    [op |-> "none", status |-> "none", category |-> NoCategory,
     cursor |-> NoCursor, limit |-> 0, data |-> <<>>,
     nextCursor |-> NoCursor, prevCursor |-> NoCursor, totalCount |-> 0,
     cacheHit |-> FALSE, storeQueried |-> FALSE, cacheWritten |-> FALSE,
     cacheFault |-> FALSE, storeFault |-> FALSE, scoredAt |-> <<0, 0>>,
     postId |-> 0, changed |-> FALSE, awaited |-> "none",
     cacheChanged |-> FALSE, entryAfter |-> <<>>, repeat |-> "no",
     userId |-> "", prior |-> "none", before |-> <<0, 0>>]

\* FeedService.transformToFeedPost
transformToFeedPost(post) ==
    [id |-> post.id, category |-> post.category, createdAt |-> post.createdAt,
     likeCount |-> post.likeCount,
     relevanceScore |-> RoundTenth(post.relevanceScore)]

\* ------------------------------------------------------------------- cache
\* variant: the error of the cache client is not caught
CacheGet_throws(c, key, err) ==
    [value |-> IF err THEN <<>> ELSE c[key], threw |-> err]

\* CacheService.get: the stored value, or null when the key is absent or the
\* cache errors; the error is caught, never thrown
CacheGet(c, key, err) ==
    [value |-> IF err THEN <<>> ELSE c[key], threw |-> FALSE]

\* variant: the value is not stored
CacheSet_dropped(c, key, value, ttlSeconds, err) ==
    [cache |-> c, threw |-> FALSE]

\* CacheService.set with a TTL; an error is caught and the key left alone
CacheSet(c, key, value, ttlSeconds, err) ==
    [cache |-> IF err THEN c
               ELSE [c EXCEPT ![key] = <<[posts |-> value.posts,
                                          totalCount |-> value.totalCount,
                                          ttl |-> ttlSeconds]>>],
     threw |-> FALSE]

\* CacheService.del; an error is caught and the key left alone
CacheDel(c, key, err) ==
    [cache |-> IF err THEN c ELSE [c EXCEPT ![key] = <<>>], threw |-> FALSE]

\* variant: the key of the global feed is not in the list of keys
invalidateCache_categoriesOnly(c, delErr) ==
    [cache |-> [k \in DOMAIN c |->
                   IF k \in InvalidatedKeys \ {getCacheKey(NoCategory)}
                   THEN CacheDel(c, k, k \in delErr).cache[k]
                   ELSE c[k]],
     threw |-> FALSE]

\* variant: the error of a failing delete reaches the caller
invalidateCache_rethrows(c, delErr) ==
    [cache |-> [k \in DOMAIN c |->
                   IF k \in InvalidatedKeys
                   THEN CacheDel(c, k, k \in delErr).cache[k]
                   ELSE c[k]],
     threw |-> delErr # {}]

\* FeedService.invalidateCache: Promise.all of one del per key, inside a
\* try/catch that logs; delErr is the set of keys whose del errors
invalidateCache(c, delErr) ==
    [cache |-> [k \in DOMAIN c |->
                   IF k \in InvalidatedKeys
                   THEN CacheDel(c, k, k \in delErr).cache[k]
                   ELSE c[k]],
     threw |-> FALSE]

\* -------------------------------------------------------------- feed query
\* the map(...) of getFeed: rows 1..split are scored with Date.now() = now1,
\* the rest with Date.now() = now2 (the clock is read once per row)
ScoreRows(rows, now1, split, now2) ==
    [i \in 1..Len(rows) |->
        [id |-> rows[i].id, category |-> rows[i].category,
         createdAt |-> rows[i].createdAt, likeCount |-> rows[i].likeCount,
         relevanceScore |->
             calculateRelevanceScore(rows[i], IF i <= split THEN now1 ELSE now2)]]

\* ValidationPipe on FeedQueryDto: a cursor, when present, must match
ValidQuery(cursor) == cursor = NoCursor \/ CursorMatches(cursor)

\* The outcome of GET /feed: the ValidationPipe, then FeedService.getFeed.
\* getErr / setErr: the cache get / set errors; storeErr: findAll throws.
\* The result is <<response, cache after the request>>.
getFeed(category, cursor, qlimit, getErr, setErr, storeErr, now1, split, now2) ==
    LET base == [NoResp EXCEPT !.op = "getFeed", !.category = category,
                               !.cursor = cursor, !.limit = qlimit]
        limit == IF qlimit = 0 THEN DEFAULT_LIMIT ELSE qlimit
        hasCursor == cursor # NoCursor
        parsedCursor == IF hasCursor THEN parseCursor(cursor)
                        ELSE [score |-> 0, postId |-> <<>>]
        cacheKey == getCacheKey(category)
        got == CacheGet(cache, cacheKey, getErr)
        cachedData == got.value
        cacheHit == cachedData # <<>>
        result == findAll(category, FETCH_LIMIT, storeErr)
        rows == IF cacheHit THEN cachedData[1].posts ELSE result.posts
        totalCount == IF cacheHit THEN cachedData[1].totalCount ELSE result.totalCount
        put == CacheSet(cache, cacheKey, [posts |-> rows, totalCount |-> totalCount],
                        getCacheTTL(category), setErr)
        postsWithScores == SortByScore(ScoreRows(rows, now1, split, now2))
        page == applyCursorPagination(postsWithScores, limit, hasCursor, parsedCursor)
    IN IF ~ValidQuery(cursor)
       THEN <<[base EXCEPT !.status = "bad_request"], cache>>
       ELSE IF got.threw
       THEN <<[base EXCEPT !.status = "error", !.cacheFault = TRUE], cache>>
       ELSE IF ~cacheHit /\ result.threw
       THEN <<[base EXCEPT !.status = "error", !.storeQueried = TRUE,
                           !.cacheFault = getErr, !.storeFault = TRUE], cache>>
       ELSE IF ~cacheHit /\ put.threw
       THEN <<[base EXCEPT !.status = "error", !.storeQueried = TRUE,
                           !.cacheFault = TRUE], put.cache>>
       ELSE <<[base EXCEPT
                 !.status = "ok",
                 !.data = [i \in 1..Len(page.data) |-> transformToFeedPost(page.data[i])],
                 !.nextCursor = page.nextCursor,
                 !.prevCursor = page.prevCursor,
                 !.limit = limit,
                 !.totalCount = totalCount,
                 !.cacheHit = cacheHit,
                 !.storeQueried = ~cacheHit,
                 !.cacheWritten = ~cacheHit /\ ~setErr,
                 !.cacheFault = getErr \/ (~cacheHit /\ setErr),
                 !.storeFault = ~cacheHit /\ storeErr,
                 !.scoredAt = <<quantizedTime(IF split > 0 \/ rows = <<>>
                                              THEN now1 ELSE now2),
                                quantizedTime(IF split < Len(rows)
                                              THEN now2 ELSE now1)>>],
              IF cacheHit THEN cache ELSE put.cache>>


\* ------------------------------------------------------------ post creation
NewPost(category, userId, createdAt) ==
    [id |-> nextId, category |-> category, userId |-> userId,
     likeCount |-> 0, dislikeCount |-> 0, createdAt |-> createdAt,
     isActive |-> TRUE]

\* variant: the caches are invalidated before the post is written
createPost_invalidateFirst(category, userId, createdAt, fail, delErr) ==
    LET base == [NoResp EXCEPT !.op = "createPost", !.category = category,
                               !.postId = nextId]
        saved == posts \cup {NewPost(category, userId, createdAt)}
        invalidated == invalidateCache(cache, delErr)
    IN IF fail \in {"user", "save"}
       THEN <<[base EXCEPT !.status = "error"], posts, invalidated.cache>>
       ELSE IF fail = "incr"
       THEN <<[base EXCEPT !.status = "error", !.changed = TRUE],
              saved, invalidated.cache>>
       ELSE <<[base EXCEPT !.status = "ok", !.changed = TRUE,
                           !.cacheFault = delErr # {}],
              saved, invalidated.cache>>

\* PostsController.createPost: PostService.create, then
\* FeedService.invalidateCache.  fail names the store call that throws:
\* "user" (findOrCreateUser), "save" (post.save), "incr" (the post-count
\* increments), or "none".  The result is <<response, posts, cache>>.
createPost(category, userId, createdAt, fail, delErr) ==
    LET base == [NoResp EXCEPT !.op = "createPost", !.category = category,
                               !.postId = nextId]
        saved == posts \cup {NewPost(category, userId, createdAt)}
        invalidated == invalidateCache(cache, delErr)
    IN IF fail \in {"user", "save"}
       THEN <<[base EXCEPT !.status = "error"], posts, cache>>
       ELSE IF fail = "incr"
       THEN <<[base EXCEPT !.status = "error", !.changed = TRUE], saved, cache>>
       ELSE IF invalidated.threw
       THEN <<[base EXCEPT !.status = "error", !.changed = TRUE,
                           !.cacheFault = TRUE],
              saved, invalidated.cache>>
       ELSE <<[base EXCEPT !.status = "ok", !.changed = TRUE,
                           !.cacheFault = delErr # {}],
              saved, invalidated.cache>>

\* -------------------------------------------------------------- engagement
\* EngagementService.updatePostCounters: the $inc applied to the post
\* variant: the counter of the engagement given up is left alone
updatePostCounters_newOnly(post, oldEngagementType, newEngagementType) ==
    [post EXCEPT !.likeCount = @ + (IF newEngagementType = "like" THEN 1 ELSE 0),
                 !.dislikeCount = @ + (IF newEngagementType = "dislike" THEN 1 ELSE 0)]

updatePostCounters(post, oldEngagementType, newEngagementType) ==
    LET dLike == (IF oldEngagementType = "like" THEN -1 ELSE 0)
                 + (IF newEngagementType = "like" THEN 1 ELSE 0)
        dDislike == (IF oldEngagementType = "dislike" THEN -1 ELSE 0)
                    + (IF newEngagementType = "dislike" THEN 1 ELSE 0)
    IN [post EXCEPT !.likeCount = @ + dLike, !.dislikeCount = @ + dDislike]

\* variant: a repeated engagement is counted again
engageWithPost_recount(userId, postId, engagementType) ==
    LET base == [NoResp EXCEPT !.op = engagementType, !.postId = postId]
        found == {p \in posts : p.id = postId}
        post == CHOOSE p \in found : TRUE
        existing == {e \in engagements : e.userId = userId /\ e.postId = postId}
        updated == updatePostCounters(post, "null", engagementType)
    IN IF found = {}
       THEN <<[base EXCEPT !.status = "not_found"], posts, engagements>>
       ELSE <<[base EXCEPT !.status = "ok", !.category = post.category,
                           !.changed = updated.likeCount # post.likeCount],
              (posts \ {post}) \cup {updated},
              (engagements \ existing)
                  \cup {[userId |-> userId, postId |-> postId,
                         engagementType |-> engagementType]}>>

\* EngagementService.engageWithPost, as called by EngagementController
\* likePost / dislikePost.  The result is <<response, posts, engagements>>.
engageWithPost(userId, postId, engagementType) ==
    LET base == [NoResp EXCEPT !.op = engagementType, !.postId = postId]
        found == {p \in posts : p.id = postId}
        post == CHOOSE p \in found : TRUE
        existing == {e \in engagements : e.userId = userId /\ e.postId = postId}
        existingEngagement == CHOOSE e \in existing : TRUE
        oldType == IF existing = {} THEN "null" ELSE existingEngagement.engagementType
        updated == updatePostCounters(post, oldType, engagementType)
    IN IF found = {}
       THEN <<[base EXCEPT !.status = "not_found"], posts, engagements>>
       ELSE IF existing # {} /\ existingEngagement.engagementType = engagementType
       THEN <<[base EXCEPT !.status = "ok", !.category = post.category],
              posts, engagements>>
       ELSE <<[base EXCEPT !.status = "ok", !.category = post.category,
                           !.changed = updated.likeCount # post.likeCount],
              (posts \ {post}) \cup {updated},
              (engagements \ existing)
                  \cup {[userId |-> userId, postId |-> postId,
                         engagementType |-> engagementType]}>>

\* ------------------------------------------------------------------ actions
EmptyCache == [k \in InvalidatedKeys |-> <<>>]
NoSession == [limit |-> 0, pages |-> <<>>]
NoScoreEval == [likeCount |-> 0, createdAt |-> 0, t1 |-> 0, t2 |-> 0,
                s1 |-> 0, s2 |-> 0, done |-> FALSE]

Scopes == {NoCategory} \cup UsedCategories

NoneAwaiting == [s \in Scopes |-> "none"]

\* the requests that can be in progress at once
RequestIds == {"r1", "r2", "r3"}

\* a request not yet made
NoRequest == [pc |-> "idle", op |-> "none", userId |-> "", postId |-> 0,
              engagementType |-> "null", existing |-> "null",
              category |-> NoCategory, rows |-> <<>>, totalCount |-> 0]

NoneInflight == [r \in RequestIds |-> NoRequest]

\* no call of applyCursorPagination made yet
NoPaged == [rows |-> <<>>, limit |-> 0, hasCursor |-> FALSE,
            cursor |-> [score |-> 0, postId |-> ""], page |-> EmptyPage,
            done |-> FALSE]

\* the addresses getClientIp tells apart
ClientIps == {"ip1", "ip2"}

\* new Map(): no entry for any ip
EmptyRateLimitMap == [ip \in ClientIps |-> <<>>]

\* nothing asked in the window yet: metered counts the requests that ran the
\* limiter, passed those of them handed to next(), bypassed the requests that
\* took the testing bypass
NoneAdmitted == [ip \in ClientIps |-> [metered |-> 0, passed |-> 0, bypassed |-> 0]]

\* a feed request of the scope has been handled
Seen(category) == [awaiting EXCEPT ![category] = "none"]

\* the call repeats the call answered last: same scope, cursor and limit,
\* that one missed and wrote the key, the key is still there, the cache
\* answers the get, and the hour bucket is the one that call was scored in
RepeatsMiss(category, cursor, limit, getErr, nowEnd) ==
    /\ resp.op = "getFeed"
    /\ resp.status = "ok"
    /\ ~resp.cacheHit
    /\ resp.cacheWritten
    /\ resp.category = category
    /\ resp.cursor = cursor
    /\ resp.limit = limit
    /\ cache[getCacheKey(category)] # <<>>
    /\ ~getErr
    /\ resp.scoredAt = <<quantizedTime(clock), quantizedTime(clock)>>
    /\ quantizedTime(nowEnd) = quantizedTime(clock)

\* the response of a feed request, with what the request was observed to do:
\* what the last creation had done to the key (awaited), whether the call
\* changed the cache, the entry of the scope's key after the call, and, for
\* a repeat of the last call, whether the data are the same
Observe(out, category, cursor, qlimit, getErr, nowEnd) ==
    [out[1] EXCEPT
        !.awaited = awaiting[category],
        !.cacheChanged = out[2] # cache,
        !.entryAfter = out[2][getCacheKey(category)],
        !.repeat = IF RepeatsMiss(category, cursor,
                                  IF qlimit = 0 THEN DEFAULT_LIMIT ELSE qlimit,
                                  getErr, nowEnd)
                   THEN IF out[1].data = resp.data THEN "same" ELSE "differs"
                   ELSE "no"]

\* variant: the rows are scored and sorted in the array the cache holds
Respond_inPlace(out, category, cursor, qlimit, getErr, nowEnd) ==
    /\ resp' = Observe(out, category, cursor, qlimit, getErr, nowEnd)
    /\ cache' = [out[2] EXCEPT
                   ![getCacheKey(category)] =
                      IF @ = <<>> THEN @
                      ELSE <<[@[1] EXCEPT
                                !.posts = SortByScore(ScoreRows(@, nowEnd, 0, nowEnd))]>>]
    /\ awaiting' = Seen(category)

\* the handler has produced out = <<response, cache>>
Respond(out, category, cursor, qlimit, getErr, nowEnd) ==
    /\ resp' = Observe(out, category, cursor, qlimit, getErr, nowEnd)
    /\ cache' = out[2]
    /\ awaiting' = Seen(category)

\* GET /feed
GetFeed(category, cursor, qlimit, getErr, setErr, storeErr) ==
    /\ Respond(getFeed(category, cursor, qlimit, getErr, setErr, storeErr,
                       clock, 0, clock),
               category, cursor, qlimit, getErr, clock)
    /\ UNCHANGED <<inflight, paged, rateLimitMap, admitted, posts, engagements, clock, nextId, session, scoreEval>>

\* GET /feed during which the wall clock crosses a tick: the first `split`
\* rows are scored before the tick, the others after it
GetFeedAcrossTick(category, qlimit, split) ==
    /\ clock < NOW0 + MaxTicks
    /\ Respond(getFeed(category, NoCursor, qlimit, FALSE, FALSE, FALSE,
                       clock, split, clock + 1),
               category, NoCursor, qlimit, FALSE, clock + 1)
    /\ clock' = clock + 1
    /\ UNCHANGED <<inflight, paged, rateLimitMap, admitted, posts, engagements, nextId, session, scoreEval>>

\* POST /posts
CreatePost(category, userId, createdAt, fail, delErr) ==
    LET out == createPost(category, userId, createdAt, fail, delErr)
    IN /\ nextId <= MaxCreated
       /\ resp' = out[1]
       /\ posts' = out[2]
       /\ cache' = out[3]
       /\ nextId' = IF out[2] # posts THEN nextId + 1 ELSE nextId
       /\ awaiting' = IF out[1].status = "ok"
                      THEN [s \in DOMAIN awaiting |->
                               IF s \in {NoCategory, category}
                               THEN IF getCacheKey(s) \in delErr THEN "kept"
                                    ELSE IF cache[getCacheKey(s)] # <<>>
                                    THEN "deleted" ELSE "absent"
                               ELSE awaiting[s]]
                      ELSE awaiting
       /\ UNCHANGED <<inflight, paged, rateLimitMap, admitted, engagements, clock, session, scoreEval>>

\* PUT /posts/:id/like and PUT /posts/:id/dislike
\* POST /posts/:id/like or /dislike.  The response records, next to the
\* outcome, what the store held when the request arrived: the caller's
\* engagement on the post and the post's two counters.
Engage(userId, postId, engagementType) ==
    LET out == engageWithPost(userId, postId, engagementType)
        existing == {e \in engagements : e.userId = userId /\ e.postId = postId}
        found == {p \in posts : p.id = postId}
    IN /\ resp' = [out[1] EXCEPT
                     !.userId = userId,
                     !.prior = IF existing = {} THEN "null"
                               ELSE (CHOOSE e \in existing : TRUE).engagementType,
                     !.before = IF found = {} THEN <<0, 0>>
                                ELSE <<(CHOOSE p \in found : TRUE).likeCount,
                                       (CHOOSE p \in found : TRUE).dislikeCount>>]
       /\ posts' = out[2]
       /\ engagements' = out[3]
       /\ UNCHANGED <<inflight, paged, rateLimitMap, admitted, cache, clock, nextId, session, scoreEval, awaiting>>

\* the wall clock reaches the next tick
Tick ==
    /\ clock < NOW0 + MaxTicks
    /\ clock' = clock + 1
    /\ UNCHANGED <<inflight, paged, rateLimitMap, admitted, posts, engagements, cache, nextId, resp, session, scoreEval, awaiting>>

\* the TTL of a cached key runs out (SETEX)
Expire(key) ==
    /\ cache[key] # <<>>
    /\ cache' = [cache EXCEPT ![key] = <<>>]
    /\ UNCHANGED <<inflight, paged, rateLimitMap, admitted, posts, engagements, clock, nextId, resp, session, scoreEval, awaiting>>


\* ------------------------------------------------------- the running service
\* page sizes of the requests: 0 stands for "no limit parameter"
FeedLimits == {0}

\* the user whose requests the running service sees
Requesters == {"u1"}

Init ==
    /\ paged = NoPaged
    /\ rateLimitMap = EmptyRateLimitMap
    /\ admitted = NoneAdmitted
    /\ inflight = NoneInflight
    /\ posts = {}
    /\ engagements = {}
    /\ cache = EmptyCache
    /\ clock = NOW0
    /\ nextId = 1
    /\ resp = NoResp
    /\ session = NoSession
    /\ scoreEval = NoScoreEval
    /\ awaiting = NoneAwaiting

Next ==
    \/ \E category \in Scopes, qlimit \in FeedLimits,
          cursor \in {NoCursor},
          getErr \in BOOLEAN, setErr \in BOOLEAN, storeErr \in BOOLEAN :
          GetFeed(category, cursor, qlimit, getErr, setErr, storeErr)
    \/ \E category \in Scopes, qlimit \in FeedLimits, split \in 0..MaxCreated :
          GetFeedAcrossTick(category, qlimit, split)
    \/ \E category \in UsedCategories, userId \in Requesters,
          fail \in {"none", "user", "save", "incr"},
          delErr \in SUBSET {getCacheKey(c) : c \in Scopes} :
          CreatePost(category, userId, clock, fail, delErr)
    \/ \E userId \in Requesters, postId \in 1..MaxCreated,
          engagementType \in {"like"} :
          Engage(userId, postId, engagementType)
    \/ Tick
    \/ \E key \in InvalidatedKeys : Expire(key)

Spec == Init /\ [][Next]_vars


\* ---------------------------------------------- one client paging the feed
\* creation times of the posts found in the store: 140 hours before the
\* current hour began, and at the beginning of the current hour
SeedCreatedAts == {NOW0 - 1 - OLD_AGE, NOW0 - 1}

\* a store holding n posts with ids 1..n, as left by earlier creations,
\* seeding (PostService.setLikeCount) and likes
SeededPosts(n, attr) ==
    {[id |-> i, category |-> "technology", userId |-> "u1",
      likeCount |-> attr[i][1], dislikeCount |-> 0, createdAt |-> attr[i][2],
      isActive |-> TRUE] : i \in 1..n}

\* the longest sequence of pages one client fetches
MaxPages == MaxPosts

\* a cursor a client may send without having received it: score 0 with the
\* id of a post
ClientCursors == {createCursor(0, ObjectIdStr(p.id)) : p \in posts}

InitPage ==
    /\ paged = NoPaged
    /\ rateLimitMap = EmptyRateLimitMap
    /\ admitted = NoneAdmitted
    /\ inflight = NoneInflight
    /\ \E n \in 0..MaxPosts :
          \E attr \in [1..n -> (0..MaxLikes) \X SeedCreatedAts] :
             posts = SeededPosts(n, attr)
    /\ engagements = {}
    /\ cache = EmptyCache
    /\ clock = NOW0
    /\ nextId = MaxPosts + 1
    /\ resp = NoResp
    /\ \E limit \in 1..MaxLimit : session = [limit |-> limit, pages |-> <<>>]
    /\ scoreEval = NoScoreEval
    /\ awaiting = NoneAwaiting

\* the client sends GET /feed?limit=..&cursor=.. and keeps the response
Fetch(via, cursor) ==
    /\ Len(session.pages) < MaxPages
    /\ Respond(getFeed(NoCategory, cursor, session.limit, FALSE, FALSE, FALSE,
                       clock, 0, clock),
               NoCategory, cursor, session.limit, FALSE, clock)
    /\ session' = [session EXCEPT
                     !.pages = Append(@, [via |-> via, page |-> resp'])]
    /\ UNCHANGED <<inflight, paged, rateLimitMap, admitted, posts, engagements, clock, nextId, scoreEval>>

LastPage == session.pages[Len(session.pages)].page

PageFirst ==
    /\ session.pages = <<>>
    /\ Fetch("first", NoCursor)

PageAny(cursor) ==
    /\ session.pages = <<>>
    /\ Fetch("any", cursor)

PageNext ==
    /\ session.pages # <<>>
    /\ LastPage.status = "ok"
    /\ LastPage.nextCursor # NoCursor
    /\ Fetch("next", LastPage.nextCursor)

PagePrev ==
    /\ session.pages # <<>>
    /\ session.pages[Len(session.pages)].via # "prev"
    /\ LastPage.status = "ok"
    /\ LastPage.prevCursor # NoCursor
    /\ Fetch("prev", LastPage.prevCursor)

NextPage ==
    \/ PageFirst
    \/ \E cursor \in ClientCursors : PageAny(cursor)
    \/ PageNext
    \/ PagePrev

SpecPage == InitPage /\ [][NextPage]_vars


\* ------------------------------------------------------ the scorer by itself
\* the evaluation times: the half hour before NOW0 up to the half hour after
\* the last tick
ScoreTimes == (NOW0 - 1)..(NOW0 + MaxTicks + 1)

InitScore ==
    /\ paged = NoPaged
    /\ rateLimitMap = EmptyRateLimitMap
    /\ admitted = NoneAdmitted
    /\ inflight = NoneInflight
    /\ posts = {}
    /\ engagements = {}
    /\ cache = EmptyCache
    /\ clock = NOW0
    /\ nextId = 1
    /\ resp = NoResp
    /\ session = NoSession
    /\ awaiting = NoneAwaiting
    /\ \E likeCount \in 0..(MaxLikes + 1), createdAt \in SeedCreatedAts \cup {NOW0},
          t1 \in ScoreTimes, t2 \in ScoreTimes :
          scoreEval = [likeCount |-> likeCount, createdAt |-> createdAt,
                       t1 |-> t1, t2 |-> t2, s1 |-> 0, s2 |-> 0, done |-> FALSE]

\* calculateRelevanceScore is called on the post at the two times
Evaluate ==
    /\ ~scoreEval.done
    /\ scoreEval' = [scoreEval EXCEPT
                        !.s1 = calculateRelevanceScore(scoreEval, scoreEval.t1),
                        !.s2 = calculateRelevanceScore(scoreEval, scoreEval.t2),
                        !.done = TRUE]
    /\ UNCHANGED <<inflight, paged, rateLimitMap, admitted, posts, engagements, cache, clock, nextId, resp, session, awaiting>>

NextScore == Evaluate

SpecScore == InitScore /\ [][NextScore]_vars


\* --------------------------------------- applyCursorPagination on its own
\* like counts and creation times of the rows paginated: 100 and 80 likes,
\* created in the current hour (scores 100 and 80) or 140 hours before
\* (scores below the matching tolerance)
PagedAttrs == {100, 80} \X SeedCreatedAts

\* what getFeed hands to applyCursorPagination for a store: the rows of
\* findAll, scored at one time and sorted
PagedRows(store) ==
    SortByScore(ScoreRows(SortByCreatedAt(store), NOW0, 0, NOW0))

\* the scores a cursor carries: 0, and the score of a row, exact or off by
\* the tolerance or one unit less
CursorScores(rows) ==
    {0} \cup {s \in {rows[i].relevanceScore + d :
                        i \in 1..Len(rows),
                        d \in {-SCORE_TOLERANCE, 1 - SCORE_TOLERANCE, 0,
                               SCORE_TOLERANCE - 1, SCORE_TOLERANCE}} : s >= 0}

\* the cursors of a request: the id of a row, or of no row
PagedCursors(rows) ==
    {[score |-> s, postId |-> ObjectIdStr(i)] :
        s \in CursorScores(rows), i \in 0..Len(rows)}

InitPaginate ==
    /\ \E n \in 0..MaxPosts : \E attr \in [1..n -> PagedAttrs] :
          /\ posts = SeededPosts(n, attr)
          /\ \E limit \in 1..MaxLimit, hasCursor \in BOOLEAN :
             \E cursor \in IF hasCursor THEN PagedCursors(PagedRows(posts))
                           ELSE {NoPaged.cursor} :
                paged = [NoPaged EXCEPT !.rows = PagedRows(posts), !.limit = limit,
                                        !.hasCursor = hasCursor, !.cursor = cursor]
    /\ engagements = {}
    /\ cache = EmptyCache
    /\ clock = NOW0
    /\ nextId = MaxPosts + 1
    /\ resp = NoResp
    /\ session = NoSession
    /\ scoreEval = NoScoreEval
    /\ awaiting = NoneAwaiting
    /\ rateLimitMap = EmptyRateLimitMap
    /\ admitted = NoneAdmitted
    /\ inflight = NoneInflight

\* one call of applyCursorPagination
Paginate ==
    /\ ~paged.done
    /\ paged' = [paged EXCEPT
                   !.page = applyCursorPagination(paged.rows, paged.limit,
                                                  paged.hasCursor, paged.cursor),
                   !.done = TRUE]
    /\ UNCHANGED <<inflight, posts, engagements, cache, clock, nextId, resp, session,
                   scoreEval, awaiting, rateLimitMap, admitted>>

NextPaginate == Paginate

SpecPaginate == InitPaginate /\ [][NextPaginate]_vars


\* ------------------------------------------------------ the rate limiter
\* RateLimitMiddleware.limit
RATE_LIMIT == 100

\* RateLimitMiddleware.windowMs; where the limiter runs, one tick of the
\* clock is half a window
WINDOW_MS == 2

\* RateLimitMiddleware.cleanupExpiredEntries
cleanupExpiredEntries(map, now) ==
    [ip \in ClientIps |->
        IF map[ip] # <<>> /\ map[ip][1].resetTime <= now THEN <<>> ELSE map[ip]]

\* variant: the limit is tested before the request is counted
use_checkFirst(map, clientIp, now, bypass, cleanup) ==
    LET resetTime == (now \div WINDOW_MS) * WINDOW_MS + WINDOW_MS
        entry == IF map[clientIp] = <<>> \/ map[clientIp][1].resetTime <= now
                 THEN [count |-> 0, resetTime |-> resetTime]
                 ELSE map[clientIp][1]
        counted == [map EXCEPT ![clientIp] = <<[entry EXCEPT !.count = @ + 1]>>]
    IN IF bypass THEN [map |-> map, status |-> "next"]
       ELSE IF entry.count > RATE_LIMIT
       THEN [map |-> counted, status |-> "too_many"]
       ELSE [map |-> IF cleanup THEN cleanupExpiredEntries(counted, now) ELSE counted,
             status |-> "next"]

\* variant: an entry is still live at its reset time
use_lateReset(map, clientIp, now, bypass, cleanup) ==
    LET resetTime == (now \div WINDOW_MS) * WINDOW_MS + WINDOW_MS
        entry == IF map[clientIp] = <<>> \/ map[clientIp][1].resetTime < now
                 THEN [count |-> 0, resetTime |-> resetTime]
                 ELSE map[clientIp][1]
        counted == [map EXCEPT ![clientIp] = <<[entry EXCEPT !.count = @ + 1]>>]
    IN IF bypass THEN [map |-> map, status |-> "next"]
       ELSE IF entry.count + 1 > RATE_LIMIT
       THEN [map |-> counted, status |-> "too_many"]
       ELSE [map |-> IF cleanup THEN cleanupExpiredEntries(counted, now) ELSE counted,
             status |-> "next"]

\* RateLimitMiddleware.use for a request getClientIp attributes to clientIp,
\* with Date.now() = now.  bypass: the request carries x-skip-rate-limit and
\* NODE_ENV is not production; cleanup: Math.random() < 0.01.  The status
\* is "next" (handed to the handler) or "too_many" (HTTP 429 thrown).
use(map, clientIp, now, bypass, cleanup) ==
    LET resetTime == (now \div WINDOW_MS) * WINDOW_MS + WINDOW_MS
        entry == IF map[clientIp] = <<>> \/ map[clientIp][1].resetTime <= now
                 THEN [count |-> 0, resetTime |-> resetTime]
                 ELSE map[clientIp][1]
        counted == [map EXCEPT ![clientIp] = <<[entry EXCEPT !.count = @ + 1]>>]
    IN IF bypass THEN [map |-> map, status |-> "next"]
       ELSE IF entry.count + 1 > RATE_LIMIT
       THEN [map |-> counted, status |-> "too_many"]
       ELSE [map |-> IF cleanup THEN cleanupExpiredEntries(counted, now) ELSE counted,
             status |-> "next"]

\* the requests an address makes in one window: the first address goes
\* beyond the limit, the others make a few
RequestCap(ip) == IF ip = "ip1" THEN RATE_LIMIT + MaxExtra ELSE MaxExtra

\* a GET /feed or GET /health request reaches the middleware.  The response
\* records the address, whether the request was metered, and what the
\* middleware found: the count and the reset time of the address's entry
\* (zeros when there was none) and Date.now()
Request(ip, bypass, cleanup) ==
    /\ IF bypass THEN admitted[ip].bypassed < MaxBypassed
       ELSE admitted[ip].metered < RequestCap(ip)
    /\ rateLimitMap' = use(rateLimitMap, ip, clock, bypass, cleanup).map
    /\ resp' = [NoResp EXCEPT
                   !.op = "request",
                   !.status = use(rateLimitMap, ip, clock, bypass, cleanup).status,
                   !.userId = ip,
                   !.prior = IF bypass THEN "bypass" ELSE "metered",
                   !.before = IF rateLimitMap[ip] = <<>> THEN <<0, 0, clock>>
                              ELSE <<rateLimitMap[ip][1].count,
                                     rateLimitMap[ip][1].resetTime, clock>>]
    /\ admitted' =
           [admitted EXCEPT ![ip] =
               IF bypass THEN [@ EXCEPT !.bypassed = @ + 1]
               ELSE IF resp'.status = "next"
               THEN [@ EXCEPT !.metered = @ + 1, !.passed = @ + 1]
               ELSE [@ EXCEPT !.metered = @ + 1]]
    /\ UNCHANGED <<inflight, posts, engagements, cache, clock, nextId, session, scoreEval,
                   awaiting, paged>>

\* time passes; the count of the window starts over when a window begins
Elapse ==
    /\ clock < NOW0 + MaxTicks
    /\ clock' = clock + 1
    /\ admitted' = IF (clock + 1) \div WINDOW_MS # clock \div WINDOW_MS
                   THEN NoneAdmitted ELSE admitted
    /\ UNCHANGED <<inflight, posts, engagements, cache, nextId, resp, session, scoreEval,
                   awaiting, paged, rateLimitMap>>

InitRate ==
    /\ posts = {}
    /\ engagements = {}
    /\ cache = EmptyCache
    /\ clock = NOW0
    /\ nextId = 1
    /\ resp = NoResp
    /\ session = NoSession
    /\ scoreEval = NoScoreEval
    /\ awaiting = NoneAwaiting
    /\ paged = NoPaged
    /\ rateLimitMap = EmptyRateLimitMap
    /\ admitted = NoneAdmitted
    /\ inflight = NoneInflight

NextRate ==
    \/ \E ip \in ClientIps, bypass \in BOOLEAN, cleanup \in BOOLEAN :
          Request(ip, bypass, cleanup)
    \/ Elapse

SpecRate == InitRate /\ [][NextRate]_vars


\* ------------------------------------------- likes and dislikes on their own
\* a store holding MaxCreated posts with the like counts seeding left, and no
\* engagement yet
InitEngage ==
    /\ \E attr \in [1..MaxCreated -> (0..MaxLikes) \X {NOW0 - 1}] :
          posts = SeededPosts(MaxCreated, attr)
    /\ engagements = {}
    /\ cache = EmptyCache
    /\ clock = NOW0
    /\ nextId = MaxCreated + 1
    /\ resp = NoResp
    /\ session = NoSession
    /\ scoreEval = NoScoreEval
    /\ awaiting = NoneAwaiting
    /\ paged = NoPaged
    /\ rateLimitMap = EmptyRateLimitMap
    /\ admitted = NoneAdmitted
    /\ inflight = NoneInflight

\* any user likes or dislikes a post, or an id no post has
NextEngage ==
    \E userId \in Users, postId \in 1..MaxCreated + 1,
       engagementType \in {"like", "dislike"} :
       Engage(userId, postId, engagementType)

SpecEngage == InitEngage /\ [][NextEngage]_vars


\* ------------------------------------------------ invalidation on its own
\* the scopes that may hold an entry when an invalidation begins
CachedScopes == {NoCategory, "technology", "sports", "news"}

\* a store of up to MaxCreated posts, and under each key of some of the scopes
\* the entry a miss of the scope leaves
InitInvalidate ==
    /\ \E n \in 0..MaxCreated :
          posts = SeededPosts(n, [i \in 1..n |-> <<0, NOW0 - 1>>])
    /\ \E populated \in SUBSET CachedScopes :
          cache = [k \in InvalidatedKeys |->
                     IF \E c \in populated : k = getCacheKey(c)
                     THEN CacheSet(EmptyCache, k,
                                   findAll(CHOOSE c \in populated : k = getCacheKey(c),
                                           FETCH_LIMIT, FALSE),
                                   getCacheTTL(CHOOSE c \in populated : k = getCacheKey(c)),
                                   FALSE).cache[k]
                     ELSE <<>>]
    /\ engagements = {}
    /\ clock = NOW0
    /\ nextId = MaxCreated + 1
    /\ resp = NoResp
    /\ session = NoSession
    /\ scoreEval = NoScoreEval
    /\ awaiting = NoneAwaiting
    /\ paged = NoPaged
    /\ rateLimitMap = EmptyRateLimitMap
    /\ admitted = NoneAdmitted
    /\ inflight = NoneInflight

\* FeedService.invalidateCache() is called (by createPost or by seeding);
\* repeat tells whether the call before was an invalidation too
Invalidate(delErr) ==
    /\ cache' = invalidateCache(cache, delErr).cache
    /\ resp' = [NoResp EXCEPT
                  !.op = "invalidate",
                  !.status = IF invalidateCache(cache, delErr).threw
                             THEN "error" ELSE "ok",
                  !.cacheFault = delErr # {},
                  !.cacheChanged = cache' # cache,
                  !.repeat = IF resp.op = "invalidate" THEN "again" ELSE "no"]
    /\ UNCHANGED <<inflight, posts, engagements, clock, nextId, session, scoreEval,
                   awaiting, paged, rateLimitMap, admitted>>

NextInvalidate ==
    \/ \E delErr \in SUBSET {getCacheKey(c) : c \in CachedScopes} :
          Invalidate(delErr)
    \/ \E key \in InvalidatedKeys : Expire(key)

SpecInvalidate == InitInvalidate /\ [][NextInvalidate]_vars


\* ------------------------------------------ feed requests on a mixed store
\* a store of up to MaxPosts posts of two categories, active or not, and an
\* empty cache
InitMiss ==
    /\ \E n \in 0..MaxPosts :
       \E attr \in [1..n -> {"technology", "sports"} \X BOOLEAN] :
          posts = {[id |-> i, category |-> attr[i][1], userId |-> "u1",
                    likeCount |-> 0, dislikeCount |-> 0, createdAt |-> NOW0 - 1,
                    isActive |-> attr[i][2]] : i \in 1..n}
    /\ engagements = {}
    /\ cache = EmptyCache
    /\ clock = NOW0
    /\ nextId = MaxPosts + 1
    /\ resp = NoResp
    /\ session = NoSession
    /\ scoreEval = NoScoreEval
    /\ awaiting = NoneAwaiting
    /\ paged = NoPaged
    /\ rateLimitMap = EmptyRateLimitMap
    /\ admitted = NoneAdmitted
    /\ inflight = NoneInflight

NextMiss ==
    \/ \E category \in Scopes,
          getErr \in BOOLEAN, setErr \in BOOLEAN, storeErr \in BOOLEAN :
          GetFeed(category, NoCursor, 0, getErr, setErr, storeErr)

SpecMiss == InitMiss /\ [][NextMiss]_vars


\* ------------------------------------------- creations over populated caches
\* an empty store whose feeds are cached for some of the scopes
InitCreate ==
    /\ posts = {}
    /\ \E populated \in SUBSET CachedScopes :
          cache = [k \in InvalidatedKeys |->
                     IF \E c \in populated : k = getCacheKey(c)
                     THEN <<[posts |-> <<>>, totalCount |-> 0,
                             ttl |-> getCacheTTL(CHOOSE c \in populated :
                                                    k = getCacheKey(c))]>>
                     ELSE <<>>]
    /\ engagements = {}
    /\ clock = NOW0
    /\ nextId = 1
    /\ resp = NoResp
    /\ session = NoSession
    /\ scoreEval = NoScoreEval
    /\ awaiting = NoneAwaiting
    /\ paged = NoPaged
    /\ rateLimitMap = EmptyRateLimitMap
    /\ admitted = NoneAdmitted
    /\ inflight = NoneInflight

NextCreate ==
    \/ \E category \in UsedCategories, userId \in Requesters,
          fail \in {"none", "user", "save", "incr"},
          delErr \in SUBSET {getCacheKey(c) : c \in Scopes} :
          CreatePost(category, userId, clock, fail, delErr)
    \/ \E category \in Scopes :
          GetFeed(category, NoCursor, 0, FALSE, FALSE, FALSE)

SpecCreate == InitCreate /\ [][NextCreate]_vars


\* ------------------------------------------ paging while the hour advances
\* a store of up to MaxCreated + 1 posts, a client that follows nextCursor,
\* and a clock that moves on between requests and during one
InitRollover ==
    /\ \E n \in 0..(MaxCreated + 1) :
          \E attr \in [1..n -> (0..MaxLikes) \X SeedCreatedAts] :
             posts = SeededPosts(n, attr)
    /\ engagements = {}
    /\ cache = EmptyCache
    /\ clock = NOW0
    /\ nextId = MaxCreated + 2
    /\ resp = NoResp
    /\ \E limit \in 1..MaxLimit : session = [limit |-> limit, pages |-> <<>>]
    /\ scoreEval = NoScoreEval
    /\ awaiting = NoneAwaiting
    /\ paged = NoPaged
    /\ rateLimitMap = EmptyRateLimitMap
    /\ admitted = NoneAdmitted
    /\ inflight = NoneInflight

NextRollover ==
    \/ PageFirst
    \/ PageNext
    \/ Tick
    \/ \E split \in 0..(MaxCreated + 1) :
          GetFeedAcrossTick(NoCategory, 0, split)

SpecRollover == InitRollover /\ [][NextRollover]_vars


\* --------------------------------- likes and dislikes, one await at a time
\* engageWithPost up to its second await: the post was found and
\* userEngagementModel.findOne has answered; a request that finds the
\* engagement it asks for returns at once
EngageFind(r, userId, postId, engagementType) ==
    LET existing == {e \in engagements : e.userId = userId /\ e.postId = postId}
        old == IF existing = {} THEN "null"
               ELSE (CHOOSE e \in existing : TRUE).engagementType
    IN /\ inflight[r].pc = "idle"
       /\ \E p \in posts : p.id = postId
       /\ inflight' = [inflight EXCEPT ![r] =
                         [NoRequest EXCEPT
                            !.pc = IF old = engagementType THEN "done" ELSE "found",
                            !.op = engagementType,
                            !.userId = userId,
                            !.postId = postId,
                            !.engagementType = engagementType,
                            !.existing = old]]
       /\ UNCHANGED <<posts, engagements, cache, clock, nextId, resp, session,
                      scoreEval, awaiting, paged, rateLimitMap, admitted>>

\* existingEngagement.save() or newEngagement.save(): the document found is
\* rewritten with the new type; an insert is refused by the unique index on
\* userId + postId when the pair has a document by now
EngageSave(r) ==
    LET q == inflight[r]
        docs == {e \in engagements : e.userId = q.userId /\ e.postId = q.postId}
        doc == [userId |-> q.userId, postId |-> q.postId,
                engagementType |-> q.engagementType]
    IN /\ q.pc = "found"
       /\ IF q.existing = "null" /\ docs # {}
          THEN /\ inflight' = [inflight EXCEPT ![r].pc = "failed"]
               /\ UNCHANGED engagements
          ELSE /\ inflight' = [inflight EXCEPT ![r].pc = "saved"]
               /\ engagements' = (engagements \ docs) \cup {doc}
       /\ UNCHANGED <<posts, cache, clock, nextId, resp, session, scoreEval,
                      awaiting, paged, rateLimitMap, admitted>>

\* updatePostCounters: the $inc computed from what findOne had answered
EngageCount(r) ==
    LET q == inflight[r]
        post == CHOOSE p \in posts : p.id = q.postId
    IN /\ q.pc = "saved"
       /\ posts' = (posts \ {post})
                      \cup {updatePostCounters(post, q.existing, q.engagementType)}
       /\ inflight' = [inflight EXCEPT ![r].pc = "done"]
       /\ UNCHANGED <<engagements, cache, clock, nextId, resp, session, scoreEval,
                      awaiting, paged, rateLimitMap, admitted>>

\* MaxCreated posts created with both counters at 0, and no engagement
InitEngageSteps ==
    /\ posts = SeededPosts(MaxCreated, [i \in 1..MaxCreated |-> <<0, NOW0 - 1>>])
    /\ engagements = {}
    /\ cache = EmptyCache
    /\ clock = NOW0
    /\ nextId = MaxCreated + 1
    /\ resp = NoResp
    /\ session = NoSession
    /\ scoreEval = NoScoreEval
    /\ awaiting = NoneAwaiting
    /\ paged = NoPaged
    /\ rateLimitMap = EmptyRateLimitMap
    /\ admitted = NoneAdmitted
    /\ inflight = NoneInflight

NextEngageSteps ==
    \/ \E r \in RequestIds, userId \in Users, postId \in 1..MaxCreated,
          engagementType \in {"like", "dislike"} :
          EngageFind(r, userId, postId, engagementType)
    \/ \E r \in RequestIds : EngageSave(r)
    \/ \E r \in RequestIds : EngageCount(r)

SpecEngageSteps == InitEngageSteps /\ [][NextEngageSteps]_vars


\* ------------------------- feed requests and creations, one await at a time
\* getFeed up to the answer of cacheService.get: a hit is served from the
\* entry, a miss goes on to the store
FeedGet(r, category) ==
    /\ inflight[r].pc = "idle"
    /\ inflight' = [inflight EXCEPT ![r] =
                      [NoRequest EXCEPT
                         !.pc = IF CacheGet(cache, getCacheKey(category), FALSE).value
                                      # <<>>
                                THEN "done" ELSE "missed",
                         !.op = "getFeed",
                         !.category = category]]
    /\ UNCHANGED <<posts, engagements, cache, clock, nextId, resp, session,
                   scoreEval, awaiting, paged, rateLimitMap, admitted>>

\* postService.findAll has answered: the request holds the rows and the count
FeedRead(r) ==
    LET result == findAll(inflight[r].category, FETCH_LIMIT, FALSE)
    IN /\ inflight[r].op = "getFeed"
       /\ inflight[r].pc = "missed"
       /\ inflight' = [inflight EXCEPT ![r].pc = "read",
                                       ![r].rows = result.posts,
                                       ![r].totalCount = result.totalCount]
       /\ UNCHANGED <<posts, engagements, cache, clock, nextId, resp, session,
                      scoreEval, awaiting, paged, rateLimitMap, admitted>>

\* cacheService.set of the rows the request holds; the rest of getFeed works
\* on the request's own copy
FeedSet(r) ==
    LET q == inflight[r]
    IN /\ q.op = "getFeed"
       /\ q.pc = "read"
       /\ cache' = CacheSet(cache, getCacheKey(q.category),
                            [posts |-> q.rows, totalCount |-> q.totalCount],
                            getCacheTTL(q.category), FALSE).cache
       /\ inflight' = [inflight EXCEPT ![r].pc = "done"]
       /\ UNCHANGED <<posts, engagements, clock, nextId, resp, session,
                      scoreEval, awaiting, paged, rateLimitMap, admitted>>

\* createPost up to the return of postService.create: the post is committed
CreateSave(r, category, userId) ==
    /\ inflight[r].pc = "idle"
    /\ nextId <= MaxCreated
    /\ posts' = posts \cup {NewPost(category, userId, clock)}
    /\ nextId' = nextId + 1
    /\ inflight' = [inflight EXCEPT ![r] =
                      [NoRequest EXCEPT !.pc = "saved", !.op = "createPost",
                                        !.category = category,
                                        !.userId = userId, !.postId = nextId]]
    /\ UNCHANGED <<engagements, cache, clock, resp, session, scoreEval,
                   awaiting, paged, rateLimitMap, admitted>>

\* feedService.invalidateCache, after which createPost returns
CreateInvalidate(r) ==
    /\ inflight[r].op = "createPost"
    /\ inflight[r].pc = "saved"
    /\ cache' = invalidateCache(cache, {}).cache
    /\ inflight' = [inflight EXCEPT ![r].pc = "done"]
    /\ UNCHANGED <<posts, engagements, clock, nextId, resp, session,
                   scoreEval, awaiting, paged, rateLimitMap, admitted>>

InitFeedRace ==
    /\ posts = {}
    /\ engagements = {}
    /\ cache = EmptyCache
    /\ clock = NOW0
    /\ nextId = 1
    /\ resp = NoResp
    /\ session = NoSession
    /\ scoreEval = NoScoreEval
    /\ awaiting = NoneAwaiting
    /\ paged = NoPaged
    /\ rateLimitMap = EmptyRateLimitMap
    /\ admitted = NoneAdmitted
    /\ inflight = NoneInflight

NextFeedRace ==
    \/ \E r \in RequestIds, category \in Scopes : FeedGet(r, category)
    \/ \E r \in RequestIds : FeedRead(r)
    \/ \E r \in RequestIds : FeedSet(r)
    \/ \E r \in RequestIds, category \in UsedCategories, userId \in Requesters :
          CreateSave(r, category, userId)
    \/ \E r \in RequestIds : CreateInvalidate(r)

SpecFeedRace == InitFeedRace /\ [][NextFeedRace]_vars


\* =================================================================== claims
\* helpers of the paging claims
PageOf(i) == session.pages[i].page

\* the client started without cursor and has only followed nextCursor
IsNextChain ==
    /\ session.pages # <<>>
    /\ session.pages[1].via = "first"
    /\ \A i \in 2..Len(session.pages) : session.pages[i].via = "next"

RECURSIVE ConcatData(_)
ConcatData(n) == IF n = 0 THEN <<>> ELSE ConcatData(n - 1) \o PageOf(n).data

NonIncreasing(data) ==
    \A i \in 1..(Len(data) - 1) :
        data[i].relevanceScore >= data[i + 1].relevanceScore

ExactlyOnce(data, rows) ==
    /\ Len(data) = Cardinality(rows)
    /\ \A p \in rows : \E i \in 1..Len(data) : data[i].id = p.id

\* C1: with a fixed raw set, limit and hour, following nextCursor from no
\* cursor until it is null yields every row exactly once, in non-increasing
\* relevanceScore order: every request of the chain is answered, and once
\* nextCursor is null the pages together are the whole raw set.
C1_PaginationCompleteness ==
    IsNextChain =>
        /\ \A i \in 1..Len(session.pages) : PageOf(i).status = "ok"
        /\ LastPage.nextCursor = NoCursor =>
              LET all == ConcatData(Len(session.pages))
              IN ExactlyOnce(all, posts) /\ NonIncreasing(all)

\* C2: if page P2 was obtained by following P1's nextCursor, requesting with
\* P2's prevCursor returns exactly the rows of P1, in the same order.
C2_PrevCursorRoundTrip ==
    \A i \in 1..(Len(session.pages) - 2) :
        (/\ PageOf(i).status = "ok"
         /\ session.pages[i + 1].via = "next"
         /\ session.pages[i + 2].via = "prev")
        => /\ PageOf(i + 2).status = "ok"
           /\ PageOf(i + 2).data = PageOf(i).data

\* C3: every non-null nextCursor and prevCursor getFeed returns matches the
\* wire format ^\d+(\.\d+)?_[a-f0-9]{24}$ the feed query validates.
C3_CursorWireFormat ==
    (resp.op = "getFeed" /\ resp.status = "ok") =>
        /\ resp.nextCursor # NoCursor => CursorMatches(resp.nextCursor)
        /\ resp.prevCursor # NoCursor => CursorMatches(resp.prevCursor)


\* C10: every page getFeed returns lists its posts in non-increasing
\* relevanceScore order, whatever order the rows were delivered in.
C10_PageSortedByScore ==
    (resp.op = "getFeed" /\ resp.status = "ok") => NonIncreasing(resp.data)

\* a page whose first row the store delivered after its second row (same
\* creation time, smaller id) and which precedes it by score
C10_Witness ==
    /\ resp.op = "getFeed"
    /\ resp.status = "ok"
    /\ Len(resp.data) >= 2
    /\ resp.data[1].relevanceScore > resp.data[2].relevanceScore
    /\ resp.data[1].createdAt = resp.data[2].createdAt
    /\ resp.data[1].id < resp.data[2].id

\* floor(now / 1h)
HourBucket(t) == t \div HOUR_IN_MS

\* C9: two evaluations of calculateRelevanceScore on the same post at times
\* of the same hour bucket give exactly the same score.
C9_Quantization ==
    (scoreEval.done /\ HourBucket(scoreEval.t1) = HourBucket(scoreEval.t2))
        => scoreEval.s1 = scoreEval.s2

\* two different times of one hour, on a post with a positive score
C9_Witness ==
    /\ scoreEval.done
    /\ scoreEval.t1 # scoreEval.t2
    /\ HourBucket(scoreEval.t1) = HourBucket(scoreEval.t2)
    /\ scoreEval.s1 > 0
    /\ scoreEval.s1 = scoreEval.s2


\* the posts a feed of the scope is drawn from
ActivePosts(category) ==
    {p \in posts : p.isActive /\ (category # NoCategory => p.category = category)}

C5_MissThenHit ==
    /\ (resp.op = "getFeed" /\ resp.status = "ok" /\ ~resp.cacheHit
        /\ ~resp.cacheFault)
          => /\ resp.storeQueried
             /\ resp.cacheChanged
             /\ resp.entryAfter
                   = <<[posts |-> findAll(resp.category, FETCH_LIMIT, FALSE).posts,
                        totalCount |-> resp.totalCount,
                        ttl |-> getCacheTTL(resp.category)]>>
    /\ (resp.op = "getFeed" /\ resp.repeat # "no")
          => /\ resp.status = "ok"
             /\ resp.cacheHit
             /\ ~resp.storeQueried
             /\ resp.repeat = "same"

\* a hit that returned a post, right after the miss that cached it
C5_Witness ==
    /\ resp.op = "getFeed"
    /\ resp.repeat = "same"
    /\ resp.cacheHit
    /\ ~resp.storeQueried
    /\ Len(resp.data) >= 1

C7_StoreFailureFatal ==
    (resp.op = "getFeed" /\ resp.storeFault)
        => /\ resp.status = "error"
           /\ resp.data = <<>>
           /\ resp.nextCursor = NoCursor
           /\ resp.prevCursor = NoCursor
           /\ ~resp.cacheChanged

\* a failed feed request on a store that holds a post of the scope
C7_Witness ==
    /\ resp.op = "getFeed"
    /\ resp.storeFault
    /\ resp.status = "error"
    /\ resp.entryAfter = <<>>
    /\ ActivePosts(resp.category) # {}

\* C8: after a like or dislike has changed a post's likeCount, no feed
\* request is served a cached raw set that still carries the old likeCount:
\* the likeCount of every row served is the one the store holds.
C8_LikeInvalidates ==
    (resp.op = "getFeed" /\ resp.status = "ok")
        => \A i \in 1..Len(resp.data) :
              \A p \in posts :
                 p.id = resp.data[i].id => p.likeCount = resp.data[i].likeCount

\* the call made was the one of Scenario 1: rows A (score 100) and B
\* (score 80), limit 1, no cursor
Scenario1 ==
    /\ paged.done
    /\ Len(paged.rows) = 2
    /\ paged.rows[1].relevanceScore = 100 * SCALE
    /\ paged.rows[2].relevanceScore = 80 * SCALE
    /\ paged.limit = 1
    /\ ~paged.hasCursor

\* C11 as stated: in Scenario 1 the page is [A], nextCursor encodes score 80
\* and the id of B, and prevCursor is null
C11_Scenario1 ==
    Scenario1 =>
        /\ paged.page.data = <<paged.rows[1]>>
        /\ paged.page.nextCursor =
               createCursor(80 * SCALE, ObjectIdStr(paged.rows[2].id))
        /\ paged.page.prevCursor = NoCursor

\* C11 amended: in Scenario 1 the page is [A], nextCursor encodes the last
\* row of the page, score 100 and the id of A, and prevCursor is null
C11_Scenario1LastRow ==
    Scenario1 =>
        /\ paged.page.data = <<paged.rows[1]>>
        /\ paged.page.nextCursor =
               createCursor(100 * SCALE, ObjectIdStr(paged.rows[1].id))
        /\ paged.page.prevCursor = NoCursor

C11_Witness ==
    /\ Scenario1
    /\ paged.page.nextCursor # NoCursor

\* C12 as stated: a cursor that exactly matches the last row of the sorted
\* sequence, or that lies after every row in the total order (score
\* descending, then id ascending), yields the empty page with both cursors
\* null
C12_EndOfData ==
    LET rows == paged.rows
        cursor == paged.cursor
        MatchesLast == /\ rows # <<>>
                       /\ rows[Len(rows)].relevanceScore = cursor.score
                       /\ ObjectIdStr(rows[Len(rows)].id) = cursor.postId
        AfterEveryRow ==
            \A i \in 1..Len(rows) :
                \/ rows[i].relevanceScore > cursor.score
                \/ /\ rows[i].relevanceScore = cursor.score
                   /\ StrGreater(cursor.postId, ObjectIdStr(rows[i].id))
    IN (paged.done /\ paged.hasCursor /\ (MatchesLast \/ AfterEveryRow))
           => paged.page = EmptyPage

\* C12 amended: a cursor that points at the last row of the sorted sequence
\* (same id, score within the tolerance), or that points at no row and lies
\* after every row, yields the empty page with both cursors null
C12_EndOfDataUnmatched ==
    LET rows == paged.rows
        cursor == paged.cursor
        PointsAtLast == /\ rows # <<>>
                        /\ IsCursorPost(rows[Len(rows)], cursor)
        PointsAtNone == \A i \in 1..Len(rows) : ~IsCursorPost(rows[i], cursor)
        AfterEveryRow ==
            \A i \in 1..Len(rows) :
                \/ rows[i].relevanceScore > cursor.score
                \/ /\ rows[i].relevanceScore = cursor.score
                   /\ StrGreater(cursor.postId, ObjectIdStr(rows[i].id))
    IN (paged.done /\ paged.hasCursor
            /\ (PointsAtLast \/ (PointsAtNone /\ AfterEveryRow)))
           => paged.page = EmptyPage

\* the cursor lies after every one of two or more rows with scores 80 and
\* above, and points at none of them
C12_Witness ==
    /\ paged.done
    /\ paged.hasCursor
    /\ Len(paged.rows) >= 2
    /\ \A i \in 1..Len(paged.rows) :
          /\ paged.rows[i].relevanceScore >= 80 * SCALE
          /\ paged.rows[i].relevanceScore > paged.cursor.score
          /\ ~IsCursorPost(paged.rows[i], paged.cursor)
    /\ paged.cursor.score > 0
    /\ paged.page = EmptyPage

\* C13 as stated: for each client IP at most RATE_LIMIT requests are handed
\* to the handler within one window, and the requests of the IP in the
\* window beyond the first RATE_LIMIT are rejected
C13_RateLimit ==
    \A ip \in ClientIps :
        admitted[ip].passed + admitted[ip].bypassed
            = Min(admitted[ip].metered + admitted[ip].bypassed, RATE_LIMIT)

\* C13 amended: for each client IP, of the requests within one window that
\* do not take the testing bypass, the first RATE_LIMIT are handed to the
\* handler and every further one is rejected with 429
C13_RateLimitMetered ==
    \A ip \in ClientIps :
        admitted[ip].passed = Min(admitted[ip].metered, RATE_LIMIT)

\* the 101st and the 102nd request of an IP in the window were rejected
C13_Witness ==
    /\ resp.op = "request"
    /\ resp.status = "too_many"
    /\ \E ip \in ClientIps :
          /\ admitted[ip].metered = RATE_LIMIT + 2
          /\ admitted[ip].passed = RATE_LIMIT

\* C14: when a user repeats the engagement they already have on a post, the
\* call succeeds, the post's likeCount and dislikeCount are what they were,
\* and the stored engagement of the pair is still that one record
C14_EngageIdempotent ==
    (resp.op \in {"like", "dislike"} /\ resp.prior = resp.op) =>
        /\ resp.status = "ok"
        /\ \A p \in posts :
              p.id = resp.postId =>
                  <<p.likeCount, p.dislikeCount>> = resp.before
        /\ {e \in engagements : e.userId = resp.userId /\ e.postId = resp.postId}
               = {[userId |-> resp.userId, postId |-> resp.postId,
                   engagementType |-> resp.prior]}

\* a dislike was repeated on a post that another user likes
C14_Witness ==
    /\ resp.op = "dislike"
    /\ resp.prior = "dislike"
    /\ resp.status = "ok"
    /\ \E e \in engagements :
          e.postId = resp.postId /\ e.userId # resp.userId /\ e.engagementType = "like"

\* C15: every (user, post) pair has at most one engagement; after a
\* successful like or dislike the pair's engagement is the one just asked
\* for; and a call that switches the engagement moves exactly one count from
\* the counter of the old type to the counter of the new type
C15_EngageExclusive ==
    /\ \A e1 \in engagements, e2 \in engagements :
          (e1.userId = e2.userId /\ e1.postId = e2.postId) => e1 = e2
    /\ (resp.op \in {"like", "dislike"} /\ resp.status = "ok") =>
          {e \in engagements : e.userId = resp.userId /\ e.postId = resp.postId}
              = {[userId |-> resp.userId, postId |-> resp.postId,
                  engagementType |-> resp.op]}
    /\ (resp.op = "dislike" /\ resp.status = "ok" /\ resp.prior = "like") =>
          \A p \in posts :
              p.id = resp.postId =>
                  <<p.likeCount, p.dislikeCount>>
                      = <<resp.before[1] - 1, resp.before[2] + 1>>
    /\ (resp.op = "like" /\ resp.status = "ok" /\ resp.prior = "dislike") =>
          \A p \in posts :
              p.id = resp.postId =>
                  <<p.likeCount, p.dislikeCount>>
                      = <<resp.before[1] + 1, resp.before[2] - 1>>

\* a like was switched to a dislike on a post another user dislikes too
C15_Witness ==
    /\ resp.op = "dislike"
    /\ resp.status = "ok"
    /\ resp.prior = "like"
    /\ resp.before[2] >= 1

\* C16: an invalidation never fails its caller, also when deletes fail; it
\* changes nothing when every key is already absent; and no invalidation,
\* the second of two in succession included, leaves under a key anything but
\* what the key held before
C16_InvalidateIdempotent ==
    [][resp'.op = "invalidate" =>
          /\ resp'.status = "ok"
          /\ (cache = EmptyCache => cache' = cache)
          /\ \A k \in InvalidatedKeys : cache'[k] = <<>> \/ cache'[k] = cache[k]]_vars

\* a second invalidation in succession has run, after a first during which
\* a delete failed and left its key cached
C16_Witness ==
    /\ resp.op = "invalidate"
    /\ resp.status = "ok"
    /\ resp.repeat = "again"
    /\ resp.cacheChanged
    /\ cache = EmptyCache

C18_SuccessorFallback ==
    (/\ paged.done
     /\ paged.hasCursor
     /\ \A i \in 1..Len(paged.rows) : ~IsCursorPost(paged.rows[i], paged.cursor))
        => \A i \in 1..Len(paged.page.data) :
               \/ paged.page.data[i].relevanceScore < paged.cursor.score
               \/ /\ paged.page.data[i].relevanceScore = paged.cursor.score
                  /\ StrGreater(ObjectIdStr(paged.page.data[i].id), paged.cursor.postId)

C20_NextCursorRule ==
    LET rows == paged.rows
        data == paged.page.data
        \* the rows of the page are rows[before + 1 .. before + Len(data)]
        Before == {b \in 0..Len(rows) - Len(data) :
                      data = SubSeq(rows, b + 1, b + Len(data))}
        RowsRemain == \A b \in Before : b + Len(data) < Len(rows)
    IN paged.done =>
           /\ Before # {}
           /\ paged.page.nextCursor # NoCursor <=> (data # <<>> /\ RowsRemain)
           /\ paged.page.nextCursor # NoCursor =>
                  paged.page.nextCursor
                      = createCursor(data[Len(data)].relevanceScore,
                                     ObjectIdStr(data[Len(data)].id))

\* a page reached through a cursor ends before the last row and carries a
\* nextCursor; and its last row is not its first
C20_Witness ==
    /\ paged.done
    /\ paged.hasCursor
    /\ Len(paged.page.data) = 2
    /\ paged.page.nextCursor # NoCursor
    /\ paged.page.data[2] = paged.rows[Len(paged.rows) - 1]

C22_InvalidateAfterCommit ==
    [][(resp'.op = "createPost" /\ posts' = posts) => cache' = cache]_vars

\* a creation failed before its post was stored while feeds were cached
C22_Witness ==
    /\ resp.op = "createPost"
    /\ resp.status = "error"
    /\ ~resp.changed
    /\ posts = {}
    /\ cache[getCacheKey(NoCategory)] # <<>>
    /\ cache[getCacheKey("technology")] # <<>>

\* C30: every createPost request that has stored its post goes on to
\* invalidate the caches, whatever happens after the write: the keys of the
\* global feed and of the post's category are gone unless their deletion
\* itself failed
C30_CommittedInvalidated ==
    [][(resp'.op = "createPost" /\ posts' # posts)
          => \/ resp'.cacheFault
             \/ /\ cache'[getCacheKey(NoCategory)] = <<>>
                /\ cache'[getCacheKey(resp'.category)] = <<>>]_vars

\* C23: a feed request leaves the stored posts as they are, leaves a cache
\* entry it read exactly as it was (rows, order, fields, count), and an entry
\* it wrote holds the rows as the store returned them, createdAt descending
\* and without score
C23_BorrowedUnchanged ==
    [][/\ posts' = posts
       /\ cache[getCacheKey(NoCategory)] # <<>> => cache' = cache
       /\ (cache[getCacheKey(NoCategory)] = <<>> /\ resp'.status = "ok")
             => /\ cache'[getCacheKey(NoCategory)] # <<>>
                /\ cache'[getCacheKey(NoCategory)][1].posts
                      = SortByCreatedAt(ActivePosts(NoCategory))]_vars

\* a later page, served from the cache by following nextCursor, begins with
\* the first of the cached rows: sorting by score reordered the copy, and the
\* cached rows kept their order
C23_Witness ==
    /\ resp.op = "getFeed"
    /\ resp.status = "ok"
    /\ resp.cacheHit
    /\ resp.cursor # NoCursor
    /\ Len(session.pages) = 2
    /\ session.pages[1].via = "first"
    /\ resp.data # <<>>
    /\ resp.entryAfter # <<>>
    /\ Len(resp.entryAfter[1].posts) = 3
    /\ resp.entryAfter[1].posts[1].id = resp.data[1].id

\* C24: a metered request that finds its address's entry exhausted and at or
\* past its reset time is handed to the handler and leaves the address with
\* a count of 1 in the window of the request; and a request is rejected only
\* when the entry it found was still live and already held RATE_LIMIT requests
C24_WindowReset ==
    (resp.op = "request" /\ resp.prior = "metered") =>
        /\ (resp.before[1] >= RATE_LIMIT /\ resp.before[2] <= resp.before[3])
              => /\ resp.status = "next"
                 /\ rateLimitMap[resp.userId]
                       = <<[count |-> 1,
                            resetTime |-> (resp.before[3] \div WINDOW_MS + 1)
                                             * WINDOW_MS]>>
        /\ resp.status = "too_many"
              => /\ resp.before[2] > resp.before[3]
                 /\ resp.before[1] >= RATE_LIMIT

\* an address that made RATE_LIMIT + 2 requests in a window is admitted at
\* the very instant the window resets
C24_Witness ==
    /\ resp.op = "request"
    /\ resp.prior = "metered"
    /\ resp.status = "next"
    /\ resp.before[1] = RATE_LIMIT + 2
    /\ resp.before[2] = resp.before[3]
    /\ rateLimitMap[resp.userId][1].count = 1

\* C26: every row of one getFeed response is scored against the same
\* quantized hour: the hour of the first row scored is the hour of the last
C26_SingleEvaluationTime ==
    (resp.op = "getFeed" /\ resp.status = "ok")
        => resp.scoredAt[1] = resp.scoredAt[2]

\* C27: when the hour bucket has advanced between a page and the page
\* obtained by following its nextCursor, with the raw set and the limit
\* unchanged, the later page contains no row of the earlier one
C27_NoRepeatAcrossRollover ==
    \A i \in 1..(Len(session.pages) - 1) :
        (/\ session.pages[i + 1].via = "next"
         /\ PageOf(i).status = "ok"
         /\ PageOf(i + 1).status = "ok"
         /\ PageOf(i).scoredAt[2] < PageOf(i + 1).scoredAt[1])
        => \A a \in 1..Len(PageOf(i).data), b \in 1..Len(PageOf(i + 1).data) :
              PageOf(i).data[a].id # PageOf(i + 1).data[b].id

\* C28: when a non-empty page that starts after the first row carries a
\* prevCursor, every row of the page obtained by following that prevCursor
\* with the same limit over the same data stands before the first row of the
\* current page in the sorted sequence
C28_PrevCursorBackwards ==
    LET sorted == SortByScore(ScoreRows(SortByCreatedAt(posts), clock, 0, clock))
        Position(id) == CHOOSE k \in 1..Len(sorted) : sorted[k].id = id
    IN \A i \in 1..(Len(session.pages) - 1) :
          (/\ session.pages[i + 1].via = "prev"
           /\ PageOf(i).status = "ok"
           /\ PageOf(i).data # <<>>
           /\ PageOf(i + 1).status = "ok")
          => \A b \in 1..Len(PageOf(i + 1).data) :
                Position(PageOf(i + 1).data[b].id) < Position(PageOf(i).data[1].id)

\* C29: for a post created with both counters at 0 and changed only through
\* like and dislike requests, however the requests interleave, no counter is
\* ever negative, and once no request is in progress likeCount is the number
\* of users whose stored engagement on the post is a like and dislikeCount
\* the number of those whose stored engagement is a dislike
C29_CountersConsistent ==
    /\ \A p \in posts : p.likeCount >= 0 /\ p.dislikeCount >= 0
    /\ (\A r \in RequestIds : inflight[r].pc \in {"idle", "done", "failed"})
          => \A p \in posts :
                /\ p.likeCount =
                      Cardinality({e \in engagements :
                                      e.postId = p.id /\ e.engagementType = "like"})
                /\ p.dislikeCount =
                      Cardinality({e \in engagements :
                                      e.postId = p.id /\ e.engagementType = "dislike"})

\* C25: however feed requests interleave with a creation, once createPost
\* has returned the cache entry of the global scope and the one of the
\* post's category are absent or hold a raw set read after the commit, that
\* is, one that contains the created post
C25_NoStaleResurrection ==
    \A r \in RequestIds :
        (inflight[r].op = "createPost" /\ inflight[r].pc = "done")
        => \A category \in {NoCategory, inflight[r].category} :
              \/ cache[getCacheKey(category)] = <<>>
              \/ \E i \in 1..Len(cache[getCacheKey(category)][1].posts) :
                    cache[getCacheKey(category)][1].posts[i].id = inflight[r].postId

====
